---- MODULE Spec2Model ----
(***************************************************************************)
(* Model of the GPIO driver of os/pi/src/gpio.rs: the memory-mapped        *)
(* register block, the typestate pin handles and the operations on them.   *)
(* A 32-bit register is a function from bit position 0..31 to {0, 1}, so   *)
(* that masks and shifts keep the width of u32.                            *)
(***************************************************************************)
EXTENDS Integers, Sequences, FiniteSets

VARIABLES
    registers,  \* the register block at GPIO_BASE, one field per register group
    handles,    \* the Gpio values created so far, in order of creation
    last,       \* the most recent call: operation, handle, pin, function, result
    log,        \* the register accesses the most recent call performed, in order
    panicked,   \* TRUE once a call has panicked (the kernel has aborted)
    initial,    \* the register block as it was before the first call
    applied,    \* per pin, the function of the last transition applied to it
    ctx,        \* per execution context, its into_alt in progress (SpecRace)
    pc,         \* where the shell is: "prompt", "read", "panic" (shell.rs)
    input,      \* the bytes held by the shell's input line
    event,      \* what the shell's most recent step read, parsed and printed
    typed       \* the bytes read since the last prompt, while at most MaxTyped

vars == <<registers, handles, last, log, panicked, initial, applied, ctx,
          pc, input, event, typed>>

(***************************************************************************)
(* Bounds of the model.                                                    *)
(***************************************************************************)
\* handles created in one behaviour of Spec
MaxHandles == 2

\* pin numbers handed to new in Spec: two pins sharing FSEL[0] and the first
\* invalid pin
PinInputs == {8, 9, 54}

\* pin numbers handed to new in SpecAllPins: every valid pin, the first
\* invalid ones and the largest u8
AllPinInputs == (0..56) \cup {255}

(***************************************************************************)
(* 32-bit words.                                                           *)
(***************************************************************************)
Bits == 0..31

Word == [Bits -> {0, 1}]

\* the u32 with value n, for 0 <= n < 2^31
U32(n) == [i \in Bits |-> IF i > 30 THEN 0 ELSE (n \div (2 ^ i)) % 2]

\* a << n on u32: bits shifted past bit 31 are lost
Shl(a, n) == [i \in Bits |-> IF i >= n THEN a[i - n] ELSE 0]

\* !a on u32
Not(a) == [i \in Bits |-> 1 - a[i]]

\* a & b on u32
And(a, b) == [i \in Bits |-> a[i] * b[i]]

\* a | b on u32
Or(a, b) == [i \in Bits |-> IF a[i] = 1 \/ b[i] = 1 THEN 1 ELSE 0]

(***************************************************************************)
(* enum Function, #[repr(u8)].                                             *)
(***************************************************************************)
Function == {"Input", "Output", "Alt0", "Alt1", "Alt2", "Alt3", "Alt4", "Alt5"}

FunctionCode(f) ==
    CASE f = "Input"  -> 0
      [] f = "Output" -> 1
      [] f = "Alt0"   -> 4
      [] f = "Alt1"   -> 5
      [] f = "Alt2"   -> 6
      [] f = "Alt3"   -> 7
      [] f = "Alt4"   -> 3
      [] f = "Alt5"   -> 2

\* states! { Uninitialized, Input, Output, Alt }
States == {"Uninitialized", "Input", "Output", "Alt"}

(***************************************************************************)
(* struct Registers: the register groups and the number of words of each.  *)
(***************************************************************************)
GroupLen ==
    [FSEL |-> 6, SET |-> 2, CLR |-> 2, LEV |-> 2, EDS |-> 2, REN |-> 2,
     FEN |-> 2, HEN |-> 2, LEN |-> 2, AREN |-> 2, AFEN |-> 2, PUD |-> 1,
     PUDCLK |-> 2]

Groups == DOMAIN GroupLen

\* The contents the block may hold before the driver first touches it.
SeedZero == [i \in Bits |-> 0]

SeedOnes == [i \in Bits |-> 1]

SeedMixed(r) == [i \in Bits |-> ((i \div 2) + i * r + r) % 2]

SeedBlocks ==
    { [g \in Groups |-> [r \in 0..(GroupLen[g] - 1) |-> SeedZero]],
      [g \in Groups |-> [r \in 0..(GroupLen[g] - 1) |-> SeedOnes]],
      [g \in Groups |-> [r \in 0..(GroupLen[g] - 1) |-> SeedMixed(r)]] }

NoCall == [op |-> "none", h |-> 0, pin |-> 0, function |-> "none", result |-> "none"]

\* an execution context that has called nothing yet
Idle == [pc |-> "idle", pin |-> 0, function |-> "none", read |-> SeedZero,
         stale |-> FALSE]

Contexts == {1, 2}

\* nothing read since the last prompt
NoneTyped == [known |-> TRUE, bytes |-> << >>]

\* no step of the shell taken yet
NoEvent == [step |-> "none", byte |-> 0, parsed |-> << >>, result |-> "none",
            args |-> << >>, out |-> << >>]

Init ==
    /\ registers \in SeedBlocks
    /\ handles = << >>
    /\ last = NoCall
    /\ log = << >>
    /\ panicked = FALSE
    /\ initial = registers
    /\ applied = [p \in 0..53 |-> "none"]
    /\ ctx = [c \in Contexts |-> Idle]
    /\ pc = "prompt"
    /\ input = << >>
    /\ event = NoEvent
    /\ typed = NoneTyped


(***************************************************************************)
(* impl<T> Gpio<T> and the typestate: which impl block a handle's          *)
(* operations come from.                                                   *)
(***************************************************************************)
Handle == 1..Len(handles)

\* Gpio<T>::transition: the value is consumed and returned with tag S
transition(hs, h, S) == [hs EXCEPT ![h] = [pin |-> hs[h].pin, state |-> S]]

\* the receivers impl Gpio<Uninitialized> accepts
AnyStateReceiver(h) == h \in Handle

IsUninitialized(h) == h \in Handle /\ handles[h].state = "Uninitialized"

\* the receivers impl Gpio<Output> accepts
IsOutput(h) == h \in Handle /\ handles[h].state = "Output"

\* the receivers impl Gpio<Input> accepts
IsInput(h) == h \in Handle /\ handles[h].state = "Input"

(***************************************************************************)
(* Gpio::new                                                               *)
(***************************************************************************)
MaxPin == 53

PinExceedsOffByOne(pin) == pin > MaxPin + 1

PinExceedsOrTaken(pin) == pin > MaxPin \/ \E h \in Handle : handles[h].pin = pin

\* if pin > 53 { panic!(..) }
PinExceeds(pin) == pin > MaxPin

New(pin, cap) ==
    /\ ~panicked
    /\ Len(handles) < cap
    /\ IF PinExceeds(pin)
       THEN /\ panicked' = TRUE
            /\ handles' = handles
            /\ last' = [op |-> "new", h |-> 0, pin |-> pin,
                        function |-> "none", result |-> "panic"]
       ELSE /\ panicked' = FALSE
            /\ handles' = Append(handles, [pin |-> pin, state |-> "Uninitialized"])
            /\ last' = [op |-> "new", h |-> Len(handles) + 1, pin |-> pin,
                        function |-> "none", result |-> "Uninitialized"]
    /\ log' = << >>
    /\ UNCHANGED registers

(***************************************************************************)
(* Gpio<Uninitialized>::into_alt                                           *)
(***************************************************************************)
\* let index: usize = (self.pin / 10) as usize;
fsel_index(pin) == pin \div 10

ShiftTwoBitsPerPin(pin, index) == (pin - index * 10) * 2

ShiftFourBitsPerPin(pin, index) == (pin - index * 10) * 4

\* let shift: usize = (self.pin as usize - index * 10) * 3;
fsel_shift(pin, index) == (pin - index * 10) * 3

WriteWithoutRead(read, function, shift) == Shl(U32(FunctionCode(function)), shift)

\* read & !(0b111 << shift) | ((function as u32) << shift)
fsel_value(read, function, shift) ==
    Or(And(read, Not(Shl(U32(7), shift))), Shl(U32(FunctionCode(function)), shift))

\* the register block after the read and the write of into_alt
into_alt_registers(regs, pin, function) ==
    LET index == fsel_index(pin)
        shift == fsel_shift(pin, index)
        read  == regs.FSEL[index]
    IN  [regs EXCEPT !.FSEL[index] = fsel_value(read, function, shift)]

\* the accesses of into_alt: register.read() then register.write(..)
into_alt_log(regs, pin, function) ==
    LET index == fsel_index(pin)
        shift == fsel_shift(pin, index)
        read  == regs.FSEL[index]
    IN  << [kind |-> "read", group |-> "FSEL", index |-> index, value |-> read],
           [kind |-> "write", group |-> "FSEL", index |-> index,
            value |-> fsel_value(read, function, shift)] >>

IntoAlt(h, function) ==
    /\ ~panicked
    /\ IsUninitialized(h)
    /\ registers' = into_alt_registers(registers, handles[h].pin, function)
    /\ log' = into_alt_log(registers, handles[h].pin, function)
    /\ handles' = transition(handles, h, "Alt")
    /\ last' = [op |-> "into_alt", h |-> h, pin |-> handles[h].pin,
                function |-> function, result |-> "Alt"]
    /\ UNCHANGED panicked

IntoOutputDirectWrite(h) ==
    /\ ~panicked
    /\ IsUninitialized(h)
    /\ LET index == fsel_index(handles[h].pin)
           value == Shl(U32(1), fsel_shift(handles[h].pin, index))
       IN  /\ registers' = [registers EXCEPT !.FSEL[index] = value]
           /\ log' = << [kind |-> "write", group |-> "FSEL", index |-> index,
                         value |-> value] >>
    /\ handles' = transition(handles, h, "Output")
    /\ last' = [op |-> "into_output", h |-> h, pin |-> handles[h].pin,
                function |-> "Output", result |-> "Output"]
    /\ UNCHANGED panicked

\* self.into_alt(Function::Output).transition()
IntoOutput(h) ==
    /\ ~panicked
    /\ IsUninitialized(h)
    /\ registers' = into_alt_registers(registers, handles[h].pin, "Output")
    /\ log' = into_alt_log(registers, handles[h].pin, "Output")
    /\ handles' = transition(transition(handles, h, "Alt"), h, "Output")
    /\ last' = [op |-> "into_output", h |-> h, pin |-> handles[h].pin,
                function |-> "Output", result |-> "Output"]
    /\ UNCHANGED panicked

\* self.into_alt(Function::Input).transition()
IntoInput(h) ==
    /\ ~panicked
    /\ IsUninitialized(h)
    /\ registers' = into_alt_registers(registers, handles[h].pin, "Input")
    /\ log' = into_alt_log(registers, handles[h].pin, "Input")
    /\ handles' = transition(transition(handles, h, "Alt"), h, "Input")
    /\ last' = [op |-> "into_input", h |-> h, pin |-> handles[h].pin,
                function |-> "Input", result |-> "Input"]
    /\ UNCHANGED panicked

(***************************************************************************)
(* Gpio<Output>::set, Gpio<Output>::clear, Gpio<Input>::level: each body   *)
(* is unimplemented!(), which panics before any register access.          *)
(***************************************************************************)
Unimplemented(op, h) ==
    /\ panicked' = TRUE
    /\ last' = [op |-> op, h |-> h, pin |-> handles[h].pin,
                function |-> "none", result |-> "panic"]
    /\ log' = << >>
    /\ UNCHANGED <<registers, handles>>

Set(h) == ~panicked /\ IsOutput(h) /\ Unimplemented("set", h)

Clear(h) == ~panicked /\ IsOutput(h) /\ Unimplemented("clear", h)

Level(h) == ~panicked /\ IsInput(h) /\ Unimplemented("level", h)

(***************************************************************************)
(* Specifications.  Spec: up to MaxHandles handles over PinInputs, so that *)
(* several handles exist together, also for one pin.  SpecAllPins: one     *)
(* handle, over every pin number.                                          *)
(***************************************************************************)
Transitions == {"into_alt", "into_input", "into_output"}

\* what a call of the driver leaves alone, and the record of the function
\* last applied to each pin
Track ==
    /\ applied' = IF last'.op \in Transitions
                  THEN [applied EXCEPT ![last'.pin] = last'.function]
                  ELSE applied
    /\ UNCHANGED <<initial, ctx, pc, input, event, typed>>

Calls ==
    \/ \E h \in Handle, function \in Function : IntoAlt(h, function) /\ Track
    \/ \E h \in Handle : IntoOutput(h) /\ Track
    \/ \E h \in Handle : IntoInput(h) /\ Track
    \/ \E h \in Handle : Set(h) /\ Track
    \/ \E h \in Handle : Clear(h) /\ Track
    \/ \E h \in Handle : Level(h) /\ Track

Next ==
    \/ \E pin \in PinInputs : New(pin, MaxHandles) /\ Track
    \/ Calls

Spec == Init /\ [][Next]_vars

NextAllPins ==
    \/ \E pin \in AllPinInputs : New(pin, 1) /\ Track
    \/ Calls

SpecAllPins == Init /\ [][NextAllPins]_vars

(***************************************************************************)
(* SpecRace: two execution contexts, each calling                         *)
(* Gpio::new(pin).into_alt(function), with the volatile read of line 124   *)
(* and the volatile write of line 125 as separate steps that the other     *)
(* context may come between.                                               *)
(***************************************************************************)
RacePins == {8, 9, 35}

Other(c) == 3 - c

RaceFrame == UNCHANGED <<handles, last, log, panicked, initial, applied,
                         pc, input, event, typed>>

\* the context enters into_alt on a fresh handle for pin
RaceCall(c, pin, function) ==
    /\ ctx[c].pc = "idle"
    /\ ~PinExceeds(pin)
    /\ ctx' = [ctx EXCEPT ![c] = [pc |-> "called", pin |-> pin,
                                  function |-> function, read |-> SeedZero,
                                  stale |-> FALSE]]
    /\ UNCHANGED registers
    /\ RaceFrame

\* let read: u32 = register.read();
RaceRead(c) ==
    /\ ctx[c].pc = "called"
    /\ ctx' = [ctx EXCEPT ![c].pc = "read",
                          ![c].read = registers.FSEL[fsel_index(ctx[c].pin)]]
    /\ UNCHANGED registers
    /\ RaceFrame

\* register.write(..), after which into_alt returns; the value another
\* context has read from the same register and not yet written back is
\* stale from here on
RaceWrite(c) ==
    /\ ctx[c].pc = "read"
    /\ LET index == fsel_index(ctx[c].pin)
           shift == fsel_shift(ctx[c].pin, index)
           d     == Other(c)
       IN  /\ registers' = [registers EXCEPT !.FSEL[index] =
                               fsel_value(ctx[c].read, ctx[c].function, shift)]
           /\ ctx' = [ctx EXCEPT ![c].pc = "done",
                                 ![d].stale = \/ ctx[d].stale
                                              \/ /\ ctx[d].pc = "read"
                                                 /\ fsel_index(ctx[d].pin) = index]
    /\ RaceFrame

NextRace ==
    \/ \E c \in Contexts, pin \in RacePins, function \in Function :
           RaceCall(c, pin, function)
    \/ \E c \in Contexts : RaceRead(c)
    \/ \E c \in Contexts : RaceWrite(c)

SpecRace == Init /\ [][NextRace]_vars

(***************************************************************************)
(* The shell of os/kernel/src/shell.rs.  A byte is a number 0..255, a      *)
(* string the sequence of its bytes.                                       *)
(***************************************************************************)
NUL == 0

BS == 8

DEL == 127

LF == 10

CR == 13

SPACE == 32

\* "echo"
Echo == <<101, 99, 104, 111>>

\* the prefix the shell is started with: "> "
Prefix == <<62, 32>>

\* let mut storage = [0u8; 512];
StorageLen == 512

\* let mut arguments: [&str; 64] = [""; 64];
ArgsLen == 64

\* StackVec::push: appends unless the backing slice of cap elements is full
StackVecPush(v, cap, x) ==
    IF Len(v) < cap THEN [ok |-> TRUE, vec |-> Append(v, x)]
    ELSE [ok |-> FALSE, vec |-> v]

\* StackVec::pop: removes the last element, if there is one
StackVecPop(v) == IF v = << >> THEN v ELSE SubSeq(v, 1, Len(v) - 1)

\* s.split(' '): the pieces between single spaces, empty pieces included
RECURSIVE split(_)
split(s) ==
    IF \A i \in 1..Len(s) : s[i] # SPACE THEN << s >>
    ELSE LET k == CHOOSE i \in 1..Len(s) :
                      s[i] = SPACE /\ \A j \in 1..(i - 1) : s[j] # SPACE
         IN  << SubSeq(s, 1, k - 1) >> \o split(SubSeq(s, k + 1, Len(s)))

AcceptAll(a) == TRUE

\* .filter(|a| !a.is_empty())
non_empty(a) == a # << >>

\* for arg in .. { args.push(arg).map_err(|_| Error::TooManyArgs)?; }
RECURSIVE push_all(_, _, _)
push_all(args, rest, cap) ==
    IF rest = << >> THEN [ok |-> TRUE, vec |-> args]
    ELSE LET r == StackVecPush(args, cap, Head(rest))
         IN  IF r.ok THEN push_all(r.vec, Tail(rest), cap)
             ELSE [ok |-> FALSE, vec |-> args]

\* Command::parse(s, buf), buf of cap elements
parse(s, cap) ==
    LET r == push_all(<< >>, SelectSeq(split(s), non_empty), cap)
    IN  IF ~r.ok THEN [result |-> "TooManyArgs", args |-> << >>]
        ELSE IF r.vec = << >> THEN [result |-> "Empty", args |-> << >>]
        ELSE [result |-> "Ok", args |-> r.vec]

\* Command::path
path(args) == args[1]

\* str::from_utf8(..).is_ok(): every byte that is not a continuation byte
\* leads a well-formed sequence of 1 to 4 bytes, and every continuation
\* byte belongs to the sequence of a lead byte before it
IsCont(b) == b \in 128..191

Utf8Len(b) ==
    IF b < 128 THEN 1
    ELSE IF b \in 194..223 THEN 2
    ELSE IF b \in 224..239 THEN 3
    ELSE IF b \in 240..244 THEN 4
    ELSE 0

Utf8Valid(s) ==
    \A i \in 1..Len(s) :
        IF IsCont(s[i])
        THEN \E k \in 1..3 :
                 /\ i - k >= 1
                 /\ Utf8Len(s[i - k]) > k
                 /\ \A m \in 1..(k - 1) : IsCont(s[i - m])
        ELSE LET b == s[i]
                 n == Utf8Len(b)
             IN  /\ n # 0
                 /\ i + n - 1 <= Len(s)
                 /\ \A m \in 1..(n - 1) : IsCont(s[i + m])
                 /\ b = 224 => s[i + 1] >= 160
                 /\ b = 237 => s[i + 1] <= 159
                 /\ b = 240 => s[i + 1] >= 144
                 /\ b = 244 => s[i + 1] <= 143

\* one kprint!/kprintln! call: the macro, its format string, its argument
Out(macro, fmt, arg) == [macro |-> macro, fmt |-> fmt, arg |-> arg]

\* kprint!("{}", byte as char), printed for every byte read
EchoByte(byte) == Out("kprint", "{}", << byte >>)

\* the three prints that erase the last character on the console
EraseSeq == << Out("kprint", "{}", << BS >>), Out("kprint", " ", << >>),
               Out("kprint", "{}", << BS >>) >>

RECURSIVE echo_args(_, _)
\* for i in 1..command.args.len() { kprint!("{} ", command.args[i]); }
echo_args(args, i) ==
    IF i > Len(args) THEN << >>
    ELSE << Out("kprint", "{} ", args[i]) >> \o echo_args(args, i + 1)

SilentTooManyArgs(r) ==
    IF r.result = "Ok" /\ path(r.args) = Echo
    THEN echo_args(r.args, 2) \o << Out("kprintln", "", << >>) >>
    ELSE IF r.result = "Ok"
    THEN << Out("kprintln", "Error: unknown command: {}", path(r.args)) >>
    ELSE << >>

\* match Command::parse(..) { Ok(command) => .., Err(Empty) => (),
\*                            Err(TooManyArgs) => kprintln!(..) }
execute(r) ==
    IF r.result = "Ok" /\ path(r.args) = Echo
    THEN echo_args(r.args, 2) \o << Out("kprintln", "", << >>) >>
    ELSE IF r.result = "Ok"
    THEN << Out("kprintln", "Error: unknown command: {}", path(r.args)) >>
    ELSE IF r.result = "TooManyArgs"
    THEN << Out("kprintln", "\nError: too many arguments", << >>) >>
    ELSE << >>

\* byte == 0x00
is_nul(byte) == byte = NUL

OnlyBackspace(byte) == byte = BS

\* byte == 0x08 || byte == 0x7f
is_erase(byte) == byte = BS \/ byte = DEL

\* byte == b'\n' || byte == b'\r'
is_eol(byte) == byte = LF \/ byte = CR

\* bytes read since the last prompt that the model remembers
MaxTyped == 3

\* the record of the bytes read since the last prompt: emptied by the
\* prompt, extended by every byte that does not end the line, given up
\* (known = FALSE) beyond MaxTyped bytes
ShellFrame ==
    /\ typed' = IF event'.step = "prompt" THEN NoneTyped
                ELSE IF event'.step \in {"line", "overflow", "parse"} THEN typed
                ELSE IF typed.known /\ Len(typed.bytes) < MaxTyped
                THEN [typed EXCEPT !.bytes = Append(typed.bytes, event'.byte)]
                ELSE [known |-> FALSE, bytes |-> << >>]
    /\ UNCHANGED <<registers, handles, last, log, panicked, initial,
                   applied, ctx>>

\* top of the outer loop: kprint!("{}", prefix) and a new, empty input
ShellPrompt ==
    /\ pc = "prompt"
    /\ pc' = "read"
    /\ input' = << >>
    /\ event' = [step |-> "prompt", byte |-> 0, parsed |-> << >>,
                 result |-> "none", args |-> << >>,
                 out |-> << Out("kprint", "{}", Prefix) >>]
    /\ ShellFrame

\* byte == 0x00: echoed and ignored
ShellIgnore(byte) ==
    /\ pc = "read"
    /\ is_nul(byte)
    /\ event' = [step |-> "ignore", byte |-> byte, parsed |-> << >>,
                 result |-> "none", args |-> << >>, out |-> << EchoByte(byte) >>]
    /\ UNCHANGED <<pc, input>>
    /\ ShellFrame

\* byte == 0x08 || byte == 0x7f
ShellErase(byte) ==
    /\ pc = "read"
    /\ ~is_nul(byte)
    /\ is_erase(byte)
    /\ IF Len(input) # 0
       THEN /\ input' = StackVecPop(input)
            /\ event' = [step |-> "erase", byte |-> byte, parsed |-> << >>,
                         result |-> "none", args |-> << >>,
                         out |-> << EchoByte(byte) >> \o EraseSeq]
       ELSE /\ input' = input
            /\ event' = [step |-> "erase", byte |-> byte, parsed |-> << >>,
                         result |-> "none", args |-> << >>,
                         out |-> << EchoByte(byte) >>]
    /\ UNCHANGED pc
    /\ ShellFrame

BreakStaysInLine(b) == "read"

\* break: the inner loop is left for the top of the outer loop
break(b) == "prompt"

\* byte == b'\n' || byte == b'\r': the line is parsed and executed
ShellLine(byte, argcap) ==
    /\ pc = "read"
    /\ ~is_nul(byte) /\ ~is_erase(byte)
    /\ is_eol(byte)
    /\ IF Utf8Valid(input)
       THEN LET r == parse(input, argcap)
            IN  /\ event' = [step |-> "line", byte |-> byte, parsed |-> input,
                             result |-> r.result, args |-> r.args,
                             out |-> << EchoByte(byte), Out("kprintln", "", << >>) >>
                                     \o execute(r)]
                /\ pc' = break(byte)
       ELSE /\ event' = [step |-> "line", byte |-> byte, parsed |-> << >>,
                         result |-> "panic", args |-> << >>,
                         out |-> << EchoByte(byte), Out("kprintln", "", << >>) >>]
            /\ pc' = "panic"
    /\ input' = << >>
    /\ ShellFrame

\* any other byte: input.push(byte), and on Err the error and break
ShellPush(byte, cap) ==
    /\ pc = "read"
    /\ ~is_nul(byte) /\ ~is_erase(byte) /\ ~is_eol(byte)
    /\ LET r == StackVecPush(input, cap, byte)
       IN  IF r.ok
           THEN /\ input' = r.vec
                /\ pc' = pc
                /\ event' = [step |-> "push", byte |-> byte, parsed |-> << >>,
                             result |-> "none", args |-> << >>,
                             out |-> << EchoByte(byte) >>]
           ELSE /\ input' = << >>
                /\ pc' = break(byte)
                /\ event' = [step |-> "overflow", byte |-> byte, parsed |-> << >>,
                             result |-> "none", args |-> << >>,
                             out |-> << EchoByte(byte),
                                        Out("kprintln",
                                            "\nError: input is over 512 bytes long",
                                            << >>) >>]
    /\ ShellFrame

\* SpecShell: the bytes of the branches of the loop, of "echo" and of a
\* two-byte UTF-8 character, with the line and the argument buffer
\* shortened to LineCap and MaxArgs
LineCap == 4

MaxArgs == 1

ShellBytes == {NUL, BS, DEL, LF, CR, SPACE, 101, 99, 104, 111, 195, 169}

NextShell ==
    \/ ShellPrompt
    \/ \E byte \in ShellBytes : ShellIgnore(byte)
    \/ \E byte \in ShellBytes : ShellErase(byte)
    \/ \E byte \in ShellBytes : ShellLine(byte, MaxArgs)
    \/ \E byte \in ShellBytes : ShellPush(byte, LineCap)

\* the shell touches no register: it is started over one register block
InitShell == Init /\ registers.FSEL[0] = SeedZero

SpecShell == InitShell /\ [][NextShell]_vars

\* SpecShellFull: the line of 512 bytes and the 64 arguments of the
\* source, over one printable byte
FullBytes == {NUL, BS, LF, 101}

NextShellFull ==
    \/ ShellPrompt
    \/ \E byte \in FullBytes : ShellIgnore(byte)
    \/ \E byte \in FullBytes : ShellErase(byte)
    \/ \E byte \in FullBytes : ShellLine(byte, ArgsLen)
    \/ \E byte \in FullBytes : ShellPush(byte, StorageLen)

SpecShellFull == InitShell /\ [][NextShellFull]_vars

\* SpecParse: Command::parse applied to every string of up to MaxLine
\* bytes over space, e and o, with a buffer of 0..MaxBuf elements
MaxLine == 4

MaxBuf == 2

ParseBytes == {SPACE, 101, 111}

ParseLines == UNION { [1..k -> ParseBytes] : k \in 0..MaxLine }

InitParse ==
    /\ registers \in SeedBlocks
    /\ registers.FSEL[0] = SeedZero
    /\ handles = << >>
    /\ last = NoCall
    /\ log = << >>
    /\ panicked = FALSE
    /\ initial = registers
    /\ applied = [p \in 0..53 |-> "none"]
    /\ ctx = [c \in Contexts |-> Idle]
    /\ pc = "parse"
    /\ input \in ParseLines
    /\ event = NoEvent
    /\ typed = NoneTyped

ParseCall(cap) ==
    /\ pc = "parse"
    /\ pc' = "parsed"
    /\ LET r == parse(input, cap)
       IN  event' = [step |-> "parse", byte |-> cap, parsed |-> input,
                     result |-> r.result, args |-> r.args, out |-> << >>]
    /\ UNCHANGED input
    /\ ShellFrame

NextParse == \E cap \in 0..MaxBuf : ParseCall(cap)

SpecParse == InitParse /\ [][NextParse]_vars

(***************************************************************************)
(* Vocabulary of the properties.                                           *)
(***************************************************************************)
\* the 3-bit number in bits [s, s+3) of word w
Field(w, s) == w[s] + 2 * w[s + 1] + 4 * w[s + 2]

\* the function-select field of pin p in register block regs
PinField(regs, p) == Field(regs.FSEL[p \div 10], (p - (p \div 10) * 10) * 3)

\* C1: after into_alt(f) on a handle for pin p returns, bits [s, s+3) of
\* FSEL[p / 10], s = (p - (p / 10) * 10) * 3, hold the 3-bit code of f,
\* whatever the registers held before.
C1_IntoAltProgramsField ==
    last.op = "into_alt" =>
        /\ last.pin \in 0..53
        /\ PinField(registers, last.pin) = FunctionCode(last.function)

\* pin 35 as Alt3 over a block of all ones: 0b111 in bits [15,18) of FSEL[3]
C1_Witness ==
    /\ last.op = "into_alt" /\ last.pin = 35 /\ last.function = "Alt3"
    /\ Field(registers.FSEL[3], 15) = 7
    /\ registers.FSEL[2] = SeedOnes

\* C2: into_alt, into_input and into_output on a handle for pin p change
\* only the 3-bit field of p: every other bit of FSEL[p / 10] (bits 30 and
\* 31 included), every other FSEL register and every register of every
\* other group keep their value.
C2_TransitionFrame ==
    [][last'.op \in Transitions =>
         \A g \in Groups : \A r \in 0..(GroupLen[g] - 1) : \A i \in Bits :
            \/ /\ g = "FSEL"
               /\ r = last'.pin \div 10
               /\ i \in ((last'.pin % 10) * 3)..((last'.pin % 10) * 3 + 2)
            \/ registers'[g][r][i] = registers[g][r][i]]_vars

\* pin 9 made an output over a block of all ones: the field is 0b001 and
\* the bits around it, 26 and 30, 31, are still 1
C2_Witness ==
    /\ last.op = "into_output" /\ last.pin = 9
    /\ Field(registers.FSEL[0], 27) = 1
    /\ registers.FSEL[0][26] = 1
    /\ registers.FSEL[0][30] = 1
    /\ registers.FSEL[0][31] = 1
    /\ registers.SET[0] = SeedOnes

\* C3: new(pin) panics and yields no handle for pin > 53; for pin in 0..53
\* it yields one handle tagged Uninitialized carrying that pin; in both
\* cases it accesses no register and leaves the block unchanged.
C3_NewChecksPin ==
    [][last'.op = "new" =>
         /\ registers' = registers
         /\ log' = << >>
         /\ last'.pin > 53 => (panicked' /\ handles' = handles)
         /\ last'.pin <= 53 =>
              /\ ~panicked'
              /\ handles' = Append(handles, [pin |-> last'.pin,
                                             state |-> "Uninitialized"])]_vars

\* new(54) has panicked and left no handle
C3_Witness ==
    /\ last.op = "new" /\ last.pin = 54
    /\ panicked
    /\ handles = << >>

\* C4: every live handle's tag equals the function programmed in hardware
\* for its pin: Input with field 0b000, Output with field 0b001, Alt with
\* one of the six alternate-function codes.
C4_TagMatchesHardware ==
    \A h \in Handle :
        /\ handles[h].state = "Input" => PinField(registers, handles[h].pin) = 0
        /\ handles[h].state = "Output" => PinField(registers, handles[h].pin) = 1
        /\ handles[h].state = "Alt" => PinField(registers, handles[h].pin) \in 2..7

\* C5: a handle only moves from Uninitialized to Input (into_input), to
\* Output (into_output) or to Alt (into_alt); a handle in Input, Output or
\* Alt keeps its state; a transition consumes the handle it is given (no
\* handle is added); set and clear are applied to Output handles only and
\* level to Input handles only.
C5_StateOnlyMovesForward ==
    [][/\ \A h \in Handle :
            /\ h \in 1..Len(handles')
            /\ handles'[h].pin = handles[h].pin
            /\ handles[h].state # "Uninitialized" =>
                   handles'[h].state = handles[h].state
            /\ handles'[h].state # handles[h].state =>
                   /\ last'.h = h
                   /\ \/ last'.op = "into_input" /\ handles'[h].state = "Input"
                      \/ last'.op = "into_output" /\ handles'[h].state = "Output"
                      \/ last'.op = "into_alt" /\ handles'[h].state = "Alt"
       /\ last'.op \in Transitions =>
            /\ Len(handles') = Len(handles)
            /\ handles[last'.h].state = "Uninitialized"
            /\ handles'[last'.h].state # "Uninitialized"
       /\ last'.op \in {"set", "clear"} => handles[last'.h].state = "Output"
       /\ last'.op = "level" => handles[last'.h].state = "Input"]_vars

\* an Input handle stayed Input while a second handle was moved to Alt
C5_Witness ==
    /\ Len(handles) = 2
    /\ handles[1].state = "Input"
    /\ handles[2].state = "Alt"
    /\ last.op = "into_alt" /\ last.h = 2

\* C6: set() on an Output handle for pin p performs exactly one register
\* access, the write of 1 << (p % 32) to SET[p / 32].
C6_SetWritesOneBit ==
    last.op = "set" =>
        log = << [kind |-> "write", group |-> "SET", index |-> last.pin \div 32,
                  value |-> Shl(U32(1), last.pin % 32)] >>

\* C7: on a looped-back line, once set() has been called the call has
\* returned and the level bit of the pin reads 1; once clear() has been
\* called it has returned and the bit reads 0; level() then answers with
\* a boolean.
C7_SetThenLevel ==
    /\ last.op = "set" =>
           ~panicked /\ registers.LEV[last.pin \div 32][last.pin % 32] = 1
    /\ last.op = "clear" =>
           ~panicked /\ registers.LEV[last.pin \div 32][last.pin % 32] = 0
    /\ last.op = "level" => last.result \in {"true", "false"}

\* C8: set() is idempotent: the first set() on an Output handle returns,
\* so that set() can be called on the handle a second time, with the same
\* hardware effect as the first call.
C8_SetIdempotent ==
    last.op = "set" => (~panicked /\ ENABLED Set(last.h))

\* C9: level() on an Input handle for pin p performs one read of
\* LEV[p / 32], returns true exactly when bit p % 32 of it is 1, and
\* changes no register.
C9_LevelReadsBit ==
    last.op = "level" =>
        /\ last.result =
             IF registers.LEV[last.pin \div 32][last.pin % 32] = 1
             THEN "true" ELSE "false"
        /\ Len(log) = 1
        /\ log[1].kind = "read" /\ log[1].group = "LEV"
        /\ log[1].index = last.pin \div 32

\* C10: no register operation fails: every call of into_alt, into_input,
\* into_output, set, clear and level completes without a panic.
C10_NoOperationFails ==
    last.op \in Transitions \cup {"set", "clear", "level"} =>
        ~panicked /\ last.result # "panic"


\* C11: into_output and into_input are into_alt(Output) and into_alt(Input)
\* re-tagged: each performs exactly one read followed by one write of
\* FSEL[pin / 10] and no other access, leaves the registers as into_alt
\* with that function code leaves them, and returns the handle tagged
\* Output, resp. Input.
C11_DerivedAreIntoAlt ==
    [][last'.op \in {"into_output", "into_input"} =>
         LET f   == IF last'.op = "into_output" THEN "Output" ELSE "Input"
             idx == last'.pin \div 10
         IN  /\ Len(log') = 2
             /\ log'[1] = [kind |-> "read", group |-> "FSEL", index |-> idx,
                           value |-> registers.FSEL[idx]]
             /\ log'[2] = [kind |-> "write", group |-> "FSEL", index |-> idx,
                           value |-> registers'.FSEL[idx]]
             /\ registers' = into_alt_registers(registers, last'.pin, f)
             /\ last'.function = f
             /\ handles'[last'.h].state = f]_vars

\* pin 53 made an input over a block of all ones, by one read and one write
C11_Witness ==
    /\ last.op = "into_input" /\ last.pin = 53
    /\ Len(log) = 2 /\ log[1].kind = "read" /\ log[2].kind = "write"
    /\ log[1].value = SeedOnes
    /\ PinField(registers, 53) = 0

\* the bit positions of the field of pin p
FieldBits(p) == { fsel_shift(p, fsel_index(p)) + k : k \in 0..2 }

\* the number of bits set in word w
Ones(w) == Cardinality({i \in Bits : w[i] = 1})

\* C12: for the pin of every handle, the register index pin / 10 is in
\* 0..5 and the shift is in 0..27, so the field lies inside one 32-bit
\* register; the shifted mask and the shifted function code lose no bit;
\* and the field of the pin shares no bit with the field of any other pin
\* 0..53 of the same register.
C12_FieldInsideRegister ==
    \A h \in Handle :
        LET p     == handles[h].pin
            index == fsel_index(p)
            shift == fsel_shift(p, index)
        IN  /\ index \in 0..5
            /\ shift \in 0..27
            /\ FieldBits(p) \subseteq Bits
            /\ Ones(Shl(U32(7), shift)) = 3
            /\ \A f \in Function :
                   Ones(Shl(U32(FunctionCode(f)), shift)) = Ones(U32(FunctionCode(f)))
            /\ \A q \in 0..53 :
                   (q # p /\ fsel_index(q) = index) =>
                       FieldBits(q) \cap FieldBits(p) = {}

\* a handle for pin 49, the last field of FSEL[4], at shift 27
C12_Witness ==
    /\ Len(handles) = 1
    /\ handles[1].pin = 49
    /\ fsel_shift(49, fsel_index(49)) = 27
    /\ last.op = "into_alt"


\* C14: nothing limits the handles per pin: while the kernel runs, new(p)
\* for a valid pin p yields one more Uninitialized handle however many
\* handles for p exist, and every Uninitialized handle can be transitioned
\* whatever the other handles for its pin are.
C14_NoLimitPerPin ==
    ~panicked =>
        /\ Len(handles) < MaxHandles =>
             \A p \in PinInputs :
                 p <= 53 =>
                     ENABLED (/\ New(p, MaxHandles)
                              /\ ~panicked'
                              /\ handles' = Append(handles,
                                     [pin |-> p, state |-> "Uninitialized"]))
        /\ \A h \in Handle :
               handles[h].state = "Uninitialized" =>
                   /\ ENABLED IntoInput(h)
                   /\ ENABLED IntoOutput(h)
                   /\ \A f \in Function : ENABLED IntoAlt(h, f)

\* two live handles for pin 9, one Output and one Input, the second
\* transition having overwritten the field the first one programmed
C14_Witness ==
    /\ Len(handles) = 2
    /\ handles[1] = [pin |-> 9, state |-> "Output"]
    /\ handles[2] = [pin |-> 9, state |-> "Input"]
    /\ last.op = "into_input" /\ last.h = 2
    /\ PinField(registers, 9) = 0


\* C18: with every call run to completion before the next starts, the
\* FSEL field of each pin holds the code of the last transition applied
\* to the pin, and the field of a pin no transition was applied to holds
\* its initial value.
C18_LastTransitionWins ==
    \A p \in 0..53 :
        PinField(registers, p) =
            IF applied[p] = "none" THEN PinField(initial, p)
            ELSE FunctionCode(applied[p])

\* pin 8 was made an output and then, by a second handle, Alt5, while pin
\* 9 of the same register, never touched, still holds 0b111 of the block
\* of all ones
C18_Witness ==
    /\ Len(handles) = 2
    /\ handles[1] = [pin |-> 8, state |-> "Output"]
    /\ handles[2] = [pin |-> 8, state |-> "Alt"]
    /\ applied[8] = "Alt5" /\ applied[9] = "none"
    /\ PinField(registers, 8) = 2
    /\ PinField(registers, 9) = 7


BothReturned == \A c \in Contexts : ctx[c].pc = "done"

\* C13: the read-modify-write is not atomic.  When both into_alt calls
\* have returned and their pins differ, a pin's field holds the code
\* programmed for it unless the other context wrote back a value it had
\* read before this pin was written; then the update is lost and the field
\* holds what that stale value held.  (The lost update is C13_Witness.)
C13_LostUpdateOnlyByInterleaving ==
    BothReturned =>
        \A c \in Contexts :
            LET d == Other(c)
                p == ctx[c].pin
            IN  p # ctx[d].pin =>
                    PinField(registers, p) =
                        IF ctx[d].stale
                        THEN Field(ctx[d].read, (p % 10) * 3)
                        ELSE FunctionCode(ctx[c].function)

\* both calls have returned, pin 8 as Output and pin 9 as Alt0 over a
\* block of zeros, and the field of pin 8 is still 0b000: its update is lost
C13_Witness ==
    /\ BothReturned
    /\ ctx[1].pin = 8 /\ ctx[1].function = "Output"
    /\ ctx[2].pin = 9 /\ ctx[2].function = "Alt0"
    /\ PinField(registers, 9) = 4
    /\ PinField(registers, 8) = 0
    /\ PinField(registers, 8) # FunctionCode(ctx[1].function)


\* the positions where a maximal run of non-space bytes of s starts
TokenStarts(s) ==
    {i \in 1..Len(s) : s[i] # SPACE /\ (i = 1 \/ s[i - 1] = SPACE)}

\* the run of non-space bytes of s that starts at position i
TokenAt(s, i) ==
    LET j == CHOOSE e \in i..Len(s) :
                 /\ \A k \in i..e : s[k] # SPACE
                 /\ e = Len(s) \/ s[e + 1] = SPACE
    IN  SubSeq(s, i, j)

\* the position of the n-th run of s
NthStart(s, n) ==
    CHOOSE i \in TokenStarts(s) :
        Cardinality({j \in TokenStarts(s) : j < i}) = n - 1

\* C15: Command::parse(s, buf) returns Error::Empty exactly when s has no
\* non-empty token, Error::TooManyArgs exactly when it has more non-empty
\* tokens than buf holds, and otherwise the non-empty tokens (the maximal
\* runs of non-space bytes) in their order, path() being the first.
C15_ParseTokens ==
    event.step = "parse" =>
        LET s   == event.parsed
            cap == event.byte
            n   == Cardinality(TokenStarts(s))
        IN  /\ event.result = "Empty" <=> n = 0
            /\ event.result = "TooManyArgs" <=> n > cap
            /\ event.result = "Ok" <=> (n # 0 /\ n <= cap)
            /\ event.result = "Ok" =>
                   /\ Len(event.args) = n
                   /\ \A k \in 1..n : event.args[k] = TokenAt(s, NthStart(s, k))
                   /\ path(event.args) = TokenAt(s, NthStart(s, 1))

\* " e o" parsed into a buffer of two: the arguments "e" and "o"
C15_Witness ==
    /\ event.step = "parse"
    /\ event.parsed = << SPACE, 101, SPACE, 111 >>
    /\ event.byte = 2
    /\ event.result = "Ok"
    /\ event.args = << << 101 >>, << 111 >> >>


\* the prints of a completed line before the command is looked at: the
\* echo of the byte and the newline
LineEcho(byte) == << EchoByte(byte), Out("kprintln", "", << >>) >>

\* C16 as stated: for every parse error (empty line, too many tokens) the
\* shell prints a diagnostic and goes on to the next prompt.
C16_EveryErrorPrintsDiagnostic ==
    (event.step = "line" /\ event.result \in {"Empty", "TooManyArgs"}) =>
        /\ Len(event.out) > Len(LineEcho(event.byte))
        /\ pc = "prompt"

\* C16, amended: a line with too many tokens prints the diagnostic
\* "Error: too many arguments"; an empty line prints nothing but the echo
\* and the newline; in both cases the shell goes on in the same loop: it
\* is at the top of the loop, where it prints the prompt and reads on with
\* an empty line.
C16_ErrorsRecoverable ==
    (event.step = "line" /\ event.result \in {"Empty", "TooManyArgs"}) =>
        /\ event.result = "TooManyArgs" =>
               event.out = LineEcho(event.byte) \o
                   << Out("kprintln", "\nError: too many arguments", << >>) >>
        /\ event.result = "Empty" => event.out = LineEcho(event.byte)
        /\ pc = "prompt"
        /\ ENABLED (ShellPrompt /\ pc' = "read" /\ input' = << >>)

\* "e e" was too many tokens for the buffer; the shell is back at the prompt
C16_Witness ==
    /\ event.step = "line"
    /\ event.result = "TooManyArgs"
    /\ event.parsed = << 101, SPACE, 101 >>
    /\ pc = "prompt"

\* C17: the shell never leaves its loop: whatever bytes it reads, it is
\* printing the prompt or reading bytes.
C17_ShellStaysInLoop == pc \in {"prompt", "read"}

\* what a byte does to the line: 0x00 nothing, 0x08 and 0x7f remove the
\* last byte if there is one, any other byte is appended
ReplayByte(line, b) ==
    IF b = 0 THEN line
    ELSE IF b = 8 \/ b = 127
    THEN (IF Len(line) = 0 THEN line ELSE [i \in 1..(Len(line) - 1) |-> line[i]])
    ELSE line \o << b >>

RECURSIVE Replay(_)
Replay(bytes) ==
    IF Len(bytes) = 0 THEN << >>
    ELSE ReplayByte(Replay(SubSeq(bytes, 1, Len(bytes) - 1)), bytes[Len(bytes)])

\* C19: the line handed to Command::parse at a newline or carriage return
\* is the replay of the bytes read since the last prompt (as is the line
\* held while reading), and a 0x08 or 0x7f on an empty line prints no
\* erase sequence and leaves the line empty.
C19_LineIsReplay ==
    typed.known =>
        /\ pc = "read" => input = Replay(typed.bytes)
        /\ (event.step = "line" /\ event.result # "panic") =>
               event.parsed = Replay(typed.bytes)
        /\ (event.step = "erase" /\
            Replay(SubSeq(typed.bytes, 1, Len(typed.bytes) - 1)) = << >>) =>
               /\ event.out = << EchoByte(event.byte) >>
               /\ input = << >>

\* 0x7f on the empty line, an ignored 0x00, then "e": the line parsed is "e"
C19_Witness ==
    /\ event.step = "line"
    /\ typed = [known |-> TRUE, bytes |-> << DEL, NUL, 101 >>]
    /\ event.parsed = << 101 >>
    /\ event.result = "Ok"

OverLength == Out("kprintln", "\nError: input is over 512 bytes long", << >>)

\* C20 as stated: the line holds 0..512 bytes, any byte arriving when 512
\* are held is not stored, prints the over-length error and abandons the
\* line unparsed, and each prompt starts with an empty line.
C20_AnyByteAtCapacityIsRefused ==
    [][(pc = "read" /\ Len(input) = StorageLen) =>
         /\ event'.step = "overflow"
         /\ event'.out = << EchoByte(event'.byte), OverLength >>
         /\ event'.parsed = << >> /\ event'.result = "none"
         /\ pc' = "prompt"]_vars

\* C20, amended: the line holds 0..512 bytes in every state; a byte other
\* than 0x00, 0x08, 0x7f, \n and \r arriving when 512 are held is not
\* stored, prints the over-length error and abandons the line without
\* parsing or executing it; each prompt starts with an empty line.
C20_LineAtMost512 ==
    /\ [](Len(input) \in 0..StorageLen)
    /\ [][
          /\ (pc = "read" /\ Len(input) = StorageLen /\
              event'.byte \notin {0, 8, 127, 10, 13}) =>
                 /\ event'.step = "overflow"
                 /\ event'.out = << EchoByte(event'.byte), OverLength >>
                 /\ event'.parsed = << >> /\ event'.result = "none"
                 /\ input' = << >>
                 /\ pc' = "prompt"
          /\ event'.step = "overflow" => Len(input) = StorageLen
          /\ event'.step = "prompt" => (input' = << >> /\ pc' = "read")
       ]_vars

\* the 513th byte has been refused and the shell is back at the prompt
C20_Witness ==
    /\ event.step = "overflow"
    /\ event.byte = 101
    /\ pc = "prompt"
    /\ input = << >>

====
